---- MODULE Spec2Model ----
(***************************************************************************)
(* Model of functions/src/index.ts: the Firestore trigger                  *)
(* notifySlackOnNewMessage and its helpers jsonForSlack and                *)
(* codeBlockWithLimit.                                                     *)
(*                                                                         *)
(* JavaScript strings are TLA+ strings; Len counts UTF-16 code units.      *)
(* The one non-ASCII character of the source, U+2026 (horizontal           *)
(* ellipsis, one code unit), is written ELLIPSIS, and U+0060 (grave        *)
(* accent), which the TLA+ lexer does not accept inside a string, is       *)
(* written GRAVE; each stands for exactly one code unit and neither occurs *)
(* in any other text of the model.                                         *)
(***************************************************************************)
EXTENDS Integers, Sequences, FiniteSets, TLC

VARIABLES
    pc,         \* position of the handler: idle, awaitFetch, awaitText, done, failed
    event,      \* the triggering event of the invocation
    frame,      \* the handler's locals messageText and json
    requests,   \* outbound HTTP requests issued so far by the invocation
    fetchPromise, \* the promise returned by fetch, with the Response or the reason
    outcome,    \* how the handler's promise settled
    cbIn,       \* codeBlockWithLimit called on its own: the arguments
    cbOut       \* ... and the value returned

vars == <<pc, event, frame, requests, fetchPromise, outcome, cbIn, cbOut>>

----------------------------------------------------------------------------
(* Bounds of the model *)

MaxDepth == 2       \* nesting depth of containers around a sampled value
MaxLen == 24        \* longest short text handed to codeBlockWithLimit directly
MaxBudget == 23     \* largest small budget handed to codeBlockWithLimit directly

----------------------------------------------------------------------------
(* Strings *)

ELLIPSIS == "~"
GRAVE == "^"

Max2(a, b) == IF a >= b THEN a ELSE b
Min2(a, b) == IF a <= b THEN a ELSE b

RECURSIVE Rep(_, _)
Rep(s, n) ==
    IF n <= 0 THEN ""
    ELSE LET h == Rep(s, n \div 2)
         IN  h \o h \o (IF n % 2 = 1 THEN s ELSE "")

\* String.prototype.slice(start, end)
Slice(s, start, end) ==
    LET len  == Len(s)
        from == IF start < 0 THEN Max2(len + start, 0) ELSE Min2(start, len)
        to   == IF end < 0 THEN Max2(len + end, 0) ELSE Min2(end, len)
        span == Max2(to - from, 0)
    IN  SubSeq(s, from + 1, from + span)

Contains(s, sub) ==
    \E i \in 1..(Len(s) - Len(sub) + 1) : SubSeq(s, i, i + Len(sub) - 1) = sub

EndsWith(s, suf) ==
    /\ Len(suf) <= Len(s)
    /\ SubSeq(s, Len(s) - Len(suf) + 1, Len(s)) = suf

StartsWith(s, pre) ==
    /\ Len(pre) <= Len(s)
    /\ SubSeq(s, 1, Len(pre)) = pre

Digit(d) == SubSeq("0123456789", d + 1, d + 1)

RECURSIVE NatToStr(_)
NatToStr(n) == IF n < 10 THEN Digit(n) ELSE NatToStr(n \div 10) \o Digit(n % 10)

\* Number-to-string conversion of an integer (template literal, JSON number)
NumToStr(n) == IF n < 0 THEN "-" \o NatToStr(0 - n) ELSE NatToStr(n)

\* String.prototype.padStart(width, "0") of a natural number
Pad(n, width) == Rep("0", width - Len(NatToStr(n))) \o NatToStr(n)

----------------------------------------------------------------------------
(* Field values of a document, as a tagged variant *)

VUndef == [t |-> "undef"]
VNull == [t |-> "null"]
VBool(b) == [t |-> "bool", b |-> b]
VNum(n) == [t |-> "num", n |-> n]
VStr(s) == [t |-> "str", s |-> s]
VArr(kids) == [t |-> "arr", kids |-> kids]
VMap(keys, kids) == [t |-> "map", keys |-> keys, kids |-> kids]
\* Firestore Timestamp: has toDate(); own fields _seconds, _nanoseconds
VTs(sec, nanos) == [t |-> "ts", sec |-> sec, nanos |-> nanos]
\* JavaScript Date: epoch seconds and milliseconds within the second
VDate(sec, ms) == [t |-> "date", sec |-> sec, ms |-> ms]

\* property read  obj[key]
Get(obj, key) ==
    IF obj.t = "map" /\ \E i \in 1..Len(obj.keys) : obj.keys[i] = key
    THEN obj.kids[CHOOSE i \in 1..Len(obj.keys) : obj.keys[i] = key]
    ELSE VUndef

\* ToBoolean
Truthy(v) ==
    CASE v.t \in {"undef", "null"} -> FALSE
      [] v.t = "bool" -> v.b
      [] v.t = "num" -> v.n # 0
      [] v.t = "str" -> v.s # ""
      [] OTHER -> TRUE

\* Timestamp.prototype.toDate()
toDate(v) == VDate(v.sec, v.nanos \div 1000000)

\* Date.prototype.toISOString(), years 0000..9999
toISOString(d) ==
    LET days == d.sec \div 86400
        sod  == d.sec % 86400
        z    == days + 719468
        era  == z \div 146097
        doe  == z - era * 146097
        yoe  == (doe - doe \div 1460 + doe \div 36524 - doe \div 146096) \div 365
        doy  == doe - (365 * yoe + yoe \div 4 - yoe \div 100)
        mp   == (5 * doy + 2) \div 153
        day  == doy - (153 * mp + 2) \div 5 + 1
        mon  == IF mp < 10 THEN mp + 3 ELSE mp - 9
        year == yoe + era * 400 + (IF mon <= 2 THEN 1 ELSE 0)
    IN  Pad(year, 4) \o "-" \o Pad(mon, 2) \o "-" \o Pad(day, 2) \o "T"
        \o Pad(sod \div 3600, 2) \o ":" \o Pad((sod % 3600) \div 60, 2) \o ":"
        \o Pad(sod % 60, 2) \o "." \o Pad(d.ms, 3) \o "Z"

----------------------------------------------------------------------------
(* JSON.stringify(value, replacer, 2) *)

\* QuoteJSONString: the escapes of the characters the model's texts use
EscapeChar(c) ==
    CASE c = "\"" -> "\\\""
      [] c = "\\" -> "\\\\"
      [] c = "\n" -> "\\n"
      [] OTHER -> c

RECURSIVE EscapeAll(_)
EscapeAll(s) ==
    IF Len(s) = 0 THEN ""
    ELSE IF Len(s) = 1 THEN EscapeChar(s)
    ELSE LET h == Len(s) \div 2
         IN  EscapeAll(SubSeq(s, 1, h)) \o EscapeAll(SubSeq(s, h + 1, Len(s)))

Quote(s) == "\"" \o EscapeAll(s) \o "\""

\* The replacer closure of jsonForSlack
replacerNoTimestamp(v) == IF v.t = "date" THEN VStr(toISOString(v)) ELSE v

replacer(v) ==
    IF Truthy(v) /\ v.t = "ts"
    THEN VStr(toISOString(toDate(v)))
    ELSE IF v.t = "date" THEN VStr(toISOString(v)) ELSE v

\* Date.prototype.toJSON, called by JSON.stringify before the replacer
toJSON(v) == IF v.t = "date" THEN VStr(toISOString(v)) ELSE v

\* Own enumerable properties of an object that is not a plain map
OwnProps(v) ==
    IF v.t = "ts"
    THEN VMap(<<"_seconds", "_nanoseconds">>, <<VNum(v.sec), VNum(v.nanos)>>)
    ELSE v

RECURSIVE Ser(_, _, _)
RECURSIVE SerItems(_, _, _, _, _)

\* the items of an array or the members of an object, from position i on
SerItems(o, i, n, useReplacer, ind) ==
    IF i > n THEN ""
    ELSE (IF i > 1 THEN ",\n" ELSE "") \o Rep(" ", ind)
         \o (IF o.t = "map" THEN Quote(o.keys[i]) \o ": " ELSE "")
         \o Ser(o.kids[i], useReplacer, ind)
         \o SerItems(o, i + 1, n, useReplacer, ind)

\* SerializeJSONProperty with gap "  " at indentation ind
Ser(v, useReplacer, ind) ==
    LET v1 == toJSON(v)
        v2 == IF useReplacer THEN replacer(v1) ELSE v1
        o  == OwnProps(v2)
    IN  CASE o.t = "null" -> "null"
          [] o.t = "bool" -> (IF o.b THEN "true" ELSE "false")
          [] o.t = "num" -> NumToStr(o.n)
          [] o.t = "str" -> Quote(o.s)
          [] o.t = "arr" ->
                IF Len(o.kids) = 0 THEN "[]"
                ELSE "[\n" \o SerItems(o, 1, Len(o.kids), useReplacer, ind + 2)
                     \o "\n" \o Rep(" ", ind) \o "]"
          [] o.t = "map" ->
                IF Len(o.kids) = 0 THEN "{}"
                ELSE "{\n" \o SerItems(o, 1, Len(o.kids), useReplacer, ind + 2)
                     \o "\n" \o Rep(" ", ind) \o "}"

\* JSON.stringify(value, null, 2)
JSONstringify(value) == Ser(value, FALSE, 0)

jsonForSlack(value) == Ser(value, TRUE, 0)

----------------------------------------------------------------------------
(* codeBlockWithLimit *)

DefaultMax == 2900
SliceMargin == 20

Fence == GRAVE \o GRAVE \o GRAVE
Marker == "\n" \o ELLIPSIS \o " (truncated)"

codeBlockNoMargin(s, max) ==
    IF Len(s) <= max THEN Fence \o s \o Fence
    ELSE Fence \o Slice(s, 0, max) \o Marker \o Fence

codeBlockStrictLimit(s, max) ==
    IF Len(s) < max THEN Fence \o s \o Fence
    ELSE Fence \o Slice(s, 0, max - SliceMargin) \o Marker \o Fence

codeBlockWithLimit(s, max) ==
    IF Len(s) <= max THEN Fence \o s \o Fence
    ELSE Fence \o Slice(s, 0, max - SliceMargin) \o Marker \o Fence

----------------------------------------------------------------------------
(* The handler's straight-line part, lines 57-98 *)

SLACK_WEBHOOK_URL == "https://hooks.slack.example/services/T000"

\* event.data?.data()
EventDataOrEmpty(ev) == IF ev.snapshot = "doc" THEN ev.data ELSE VMap(<<>>, <<>>)

EventData(ev) == IF ev.snapshot = "doc" THEN ev.data ELSE VUndef

\* data.message ?? ""
Coalesce(v, dflt) == IF v.t \in {"undef", "null"} THEN dflt ELSE v

messageTextOr(data) ==
    LET m == Get(data, "message")
    IN  IF m.t = "str" /\ m.s # "" THEN m.s
        ELSE JSONstringify(IF Truthy(m) THEN m ELSE VStr(""))

messageTextOf(data) ==
    LET m == Get(data, "message")
    IN  IF m.t = "str" THEN m.s ELSE JSONstringify(Coalesce(m, VStr("")))

HeaderTitle == "New Firestore message"

buildPayloadBodyLast(docId, messageText, json) ==
    [text |-> "New Firestore message: " \o docId,
     blocks |-> <<
        [type |-> "header", text |-> [type |-> "plain_text", text |-> HeaderTitle]],
        [type |-> "section",
         fields |-> << [type |-> "mrkdwn", text |-> "*Collection:*\nmessages"],
                       [type |-> "mrkdwn", text |-> "*Doc ID:*\n" \o docId] >>],
        [type |-> "section",
         text |-> [type |-> "mrkdwn", text |-> codeBlockWithLimit(json, DefaultMax)]],
        [type |-> "section", text |-> [type |-> "plain_text", text |-> messageText]]
     >>]

buildPayload(docId, messageText, json) ==
    [text |-> "New Firestore message: " \o docId,
     blocks |-> <<
        [type |-> "header", text |-> [type |-> "plain_text", text |-> HeaderTitle]],
        [type |-> "section", text |-> [type |-> "plain_text", text |-> messageText]],
        [type |-> "section",
         fields |-> << [type |-> "mrkdwn", text |-> "*Collection:*\nmessages"],
                       [type |-> "mrkdwn", text |-> "*Doc ID:*\n" \o docId] >>],
        [type |-> "section",
         text |-> [type |-> "mrkdwn", text |-> codeBlockWithLimit(json, DefaultMax)]]
     >>]

\* the arguments of fetch; body is the payload JSON.stringify is applied to
Request(payload) ==
    [url |-> SLACK_WEBHOOK_URL, method |-> "POST",
     contentType |-> "application/json", body |-> payload]

\* Response.ok
Ok(status) == status \in 200..299

errorMessageNoBody(status, body) == "Slack webhook failed: " \o NumToStr(status)

errorMessage(status, body) ==
    "Slack webhook failed: " \o NumToStr(status) \o " " \o body

----------------------------------------------------------------------------
(* Inputs *)

DocIds == {"abc123", "m-7"}

T2024 == VTs(1704067200, 0)
TLeap == VTs(951827696, 789654321)
TimeLeaves == {T2024, TLeap, VDate(86399, 5)}
PlainLeaves == {VNum(-7), VStr("hi"), VNull}

Shapes == UNION {[1..n -> {"arr", "map"}] : n \in 0..MaxDepth}

RECURSIVE Wrap(_, _)
Wrap(v, shape) ==
    IF shape = <<>> THEN v
    ELSE IF Head(shape) = "arr" THEN VArr(<<VNum(1), Wrap(v, Tail(shape))>>)
    ELSE VMap(<<"k">>, <<Wrap(v, Tail(shape))>>)

NestedValues == {Wrap(l, sh) : l \in TimeLeaves \cup PlainLeaves, sh \in Shapes}

MessageValues ==
    {VUndef, VStr("hello"), VStr(""), VStr("a\"b\nc"), VNull, VNum(42),
     VBool(FALSE), T2024, VArr(<<VStr("x")>>), VMap(<<"k">>, <<VNum(1)>>)}

\* a document with field "message" = m and field "ts" = x, each possibly absent
MkRecord(m, x) ==
    VMap((IF m = VUndef THEN <<>> ELSE <<"message">>)
            \o (IF x = VUndef THEN <<>> ELSE <<"ts">>),
         (IF m = VUndef THEN <<>> ELSE <<m>>)
            \o (IF x = VUndef THEN <<>> ELSE <<x>>))

\* a document whose serialization is longer than DefaultMax
LongRecord == VMap(<<"message", "ts">>, <<VStr(Rep("0123456789", 300)), T2024>>)

Records ==
    {MkRecord(m, x) : m \in MessageValues, x \in NestedValues \cup {VUndef}}
        \cup {LongRecord}

Events ==
    {[docId |-> d, snapshot |-> "doc", data |-> r] : d \in DocIds, r \in Records}
        \cup {[docId |-> d, snapshot |-> k, data |-> VUndef] :
                d \in DocIds, k \in {"absent", "empty"}}

Statuses == {200, 204, 302, 404, 500}
Bodies == {"", "oops"}
Responses == [status : Statuses, body : Bodies, readable : BOOLEAN]
TransportErrors == {[name |-> "TypeError", message |-> "fetch failed"]}

NoEvent == [docId |-> "", snapshot |-> "none", data |-> VUndef]
NoFrame == [messageText |-> "", json |-> ""]
NoResponse == [status |-> 0, body |-> "", readable |-> FALSE]
NoError == [name |-> "", message |-> ""]
NoPromise == [state |-> "none", res |-> NoResponse, reason |-> NoError]
Pending == [kind |-> "pending", error |-> NoError]
Returned == [kind |-> "returned", error |-> NoError]
Thrown(e) == [kind |-> "thrown", error |-> e]

TextLens == (0..MaxLen) \cup {DefaultMax - 1, DefaultMax, DefaultMax + 1, DefaultMax + 50}
Budgets == (17..MaxBudget) \cup {0, DefaultMax}
Text(n) == Slice(Rep("0123456789", n \div 10 + 1), 0, n)
NotCalled == [called |-> FALSE, value |-> ""]

----------------------------------------------------------------------------
(* The handler as a state machine *)

Init ==
    /\ pc = "idle"
    /\ event = NoEvent
    /\ frame = NoFrame
    /\ requests = <<>>
    /\ fetchPromise = NoPromise
    /\ outcome = Pending
    /\ cbIn = [s |-> "", max |-> DefaultMax]
    /\ cbOut = NotCalled

\* lines 56-98: the platform calls the handler; it runs to return or to the await
Invoke(ev) ==
    /\ pc = "idle"
    /\ event' = ev
    /\ LET docId == ev.docId
           data  == EventData(ev)
       IN  IF ~Truthy(data)
           THEN /\ pc' = "done"
                /\ outcome' = Returned
                /\ UNCHANGED <<frame, requests, fetchPromise>>
           ELSE LET messageText == messageTextOf(data)
                    json        == jsonForSlack(data)
                    payload     == buildPayload(docId, messageText, json)
                IN  /\ frame' = [messageText |-> messageText, json |-> json]
                    /\ requests' = Append(requests, Request(payload))
                    /\ fetchPromise' = [NoPromise EXCEPT !.state = "pending"]
                    /\ pc' = "awaitFetch"
                    /\ UNCHANGED outcome
    /\ UNCHANGED <<cbIn, cbOut>>

FetchFulfilRetry(r) ==
    /\ pc = "awaitFetch"
    /\ fetchPromise' = [state |-> "fulfilled", res |-> r, reason |-> NoError]
    /\ IF Ok(r.status)
       THEN /\ pc' = "done" /\ outcome' = Returned /\ UNCHANGED requests
       ELSE IF Len(requests) < 2
       THEN /\ pc' = "awaitFetch" /\ UNCHANGED outcome
            /\ requests' = Append(requests, requests[1])
       ELSE /\ pc' = "awaitText" /\ UNCHANGED <<outcome, requests>>
    /\ UNCHANGED <<event, frame, cbIn, cbOut>>

\* lines 94, 100: the endpoint answered
FetchFulfil(r) ==
    /\ pc = "awaitFetch"
    /\ fetchPromise' = [state |-> "fulfilled", res |-> r, reason |-> NoError]
    /\ IF Ok(r.status)
       THEN /\ pc' = "done"
            /\ outcome' = Returned
       ELSE /\ pc' = "awaitText"
            /\ UNCHANGED outcome
    /\ UNCHANGED <<event, frame, requests, cbIn, cbOut>>

FetchRejectSwallowed(e) ==
    /\ pc = "awaitFetch"
    /\ fetchPromise' = [state |-> "rejected", res |-> NoResponse, reason |-> e]
    /\ pc' = "done"
    /\ outcome' = Returned
    /\ UNCHANGED <<event, frame, requests, cbIn, cbOut>>

\* line 94: the request failed before any response; the await throws
FetchReject(e) ==
    /\ pc = "awaitFetch"
    /\ fetchPromise' = [state |-> "rejected", res |-> NoResponse, reason |-> e]
    /\ pc' = "failed"
    /\ outcome' = Thrown(e)
    /\ UNCHANGED <<event, frame, requests, cbIn, cbOut>>

\* lines 101-102: res.text() resolved with the body
TextFulfil ==
    /\ pc = "awaitText"
    /\ fetchPromise.res.readable
    /\ LET body == fetchPromise.res.body
       IN  outcome' = Thrown([name |-> "Error",
                              message |-> errorMessage(fetchPromise.res.status, body)])
    /\ pc' = "failed"
    /\ UNCHANGED <<event, frame, requests, fetchPromise, cbIn, cbOut>>

TextRejectPropagated ==
    /\ pc = "awaitText"
    /\ ~fetchPromise.res.readable
    /\ outcome' = Thrown([name |-> "TypeError", message |-> "terminated"])
    /\ pc' = "failed"
    /\ UNCHANGED <<event, frame, requests, fetchPromise, cbIn, cbOut>>

\* lines 101-102: res.text() rejected; .catch(() => "")
TextReject ==
    /\ pc = "awaitText"
    /\ ~fetchPromise.res.readable
    /\ LET body == ""
       IN  outcome' = Thrown([name |-> "Error",
                              message |-> errorMessage(fetchPromise.res.status, body)])
    /\ pc' = "failed"
    /\ UNCHANGED <<event, frame, requests, fetchPromise, cbIn, cbOut>>

Next ==
    \/ \E ev \in Events : Invoke(ev)
    \/ \E r \in Responses : FetchFulfil(r)
    \/ \E e \in TransportErrors : FetchReject(e)
    \/ TextFulfil
    \/ TextReject

Spec == Init /\ [][Next]_vars

----------------------------------------------------------------------------
(* codeBlockWithLimit applied to arbitrary arguments *)

InitBlock ==
    /\ pc = "idle"
    /\ event = NoEvent
    /\ frame = NoFrame
    /\ requests = <<>>
    /\ fetchPromise = NoPromise
    /\ outcome = Pending
    /\ cbIn \in {[s |-> Text(n), max |-> b] : n \in TextLens, b \in Budgets}
    /\ cbOut = NotCalled

CallCodeBlock ==
    /\ ~cbOut.called
    /\ cbOut' = [called |-> TRUE, value |-> codeBlockWithLimit(cbIn.s, cbIn.max)]
    /\ UNCHANGED <<pc, event, frame, requests, fetchPromise, outcome, cbIn>>

NextBlock == CallCodeBlock

SpecBlock == InitBlock /\ [][NextBlock]_vars

----------------------------------------------------------------------------
(* Vocabulary of the properties *)

SuccessStatus(st) == st >= 200 /\ st < 300

ThrownMessage == outcome.error.message

Payload == requests[1].body

BodyText == Payload.blocks[2].text.text

MessageField == Get(event.data, "message")

\* the serialization of the empty string: two quotation marks
EmptySerialization == "\"\""

ExampleRecord == MkRecord(VStr("hello"), T2024)

SectionContains(block, txt) ==
    /\ "fields" \in DOMAIN block
    /\ \E i \in 1..Len(block.fields) : Contains(block.fields[i].text, txt)

\* ISO-8601 renderings of the sampled points in time, from the calendar
KnownIso(t) ==
    CASE t = T2024 -> "2024-01-01T00:00:00.000Z"
      [] t = TLeap -> "2000-02-29T12:34:56.789Z"
      [] t = VDate(86399, 5) -> "1970-01-01T23:59:59.005Z"

RECURSIVE IsoForm(_)
\* the document with every point in time replaced by its ISO-8601 string
IsoForm(v) ==
    CASE v.t = "ts" -> VStr(KnownIso(v))
      [] v.t = "date" -> VStr(KnownIso(v))
      [] v.t = "arr" -> VArr([i \in 1..Len(v.kids) |-> IsoForm(v.kids[i])])
      [] v.t = "map" -> VMap(v.keys, [i \in 1..Len(v.kids) |-> IsoForm(v.kids[i])])
      [] OTHER -> v

RECURSIVE TimeValues(_)
\* the points in time a value holds, at any depth
TimeValues(v) ==
    IF v.t \in {"ts", "date"} THEN {v}
    ELSE IF v.t \in {"arr", "map"}
    THEN UNION {TimeValues(v.kids[i]) : i \in 1..Len(v.kids)}
    ELSE {}

RECURSIVE DepthOfTime(_)
\* number of containers around the deepest point in time of a value
DepthOfTime(v) ==
    IF v.t \in {"arr", "map"} /\ TimeValues(v) # {}
    THEN 1 + DepthOfTime(CHOOSE k \in {v.kids[i] : i \in 1..Len(v.kids)} :
                            TimeValues(k) # {})
    ELSE 0

----------------------------------------------------------------------------
(* Properties of the handler, checked under Spec *)

\* C1: an invocation whose event carries no payload (event.data absent, or
\* data() yielding nothing) returns normally and issues no request at all.
C1_NoPayloadNoRequest ==
    (pc # "idle" /\ event.snapshot \in {"absent", "empty"}) =>
        /\ pc = "done"
        /\ outcome = Returned
        /\ requests = <<>>
        /\ fetchPromise.state = "none"

C1_Witness == pc = "done" /\ event.snapshot = "empty" /\ outcome = Returned

\* C2: an invocation whose event carries a payload has issued exactly one
\* POST to the configured target at every later moment, whatever the outcome
\* of that POST: there is never a second request.
C2_ExactlyOnePost ==
    (pc # "idle" /\ event.snapshot = "doc") =>
        /\ Len(requests) = 1
        /\ requests[1].method = "POST"
        /\ requests[1].url = SLACK_WEBHOOK_URL
        /\ requests[1].contentType = "application/json"

C2_Witness ==
    /\ pc = "failed"
    /\ fetchPromise.state = "fulfilled"
    /\ fetchPromise.res.status = 500
    /\ Len(requests) = 1

\* C3: a response with a non-success status makes the invocation fail with an
\* error whose message contains the status code and the body text (500 and
\* "oops" give "... 500 oops"); a success status makes it return normally.
C3_StatusDecidesOutcome ==
    fetchPromise.state = "fulfilled" =>
        LET r == fetchPromise.res
        IN  /\ SuccessStatus(r.status) => (pc = "done" /\ outcome = Returned)
            /\ ~SuccessStatus(r.status) => pc \in {"awaitText", "failed"}
            /\ pc = "failed" =>
                  /\ outcome.kind = "thrown"
                  /\ Contains(ThrownMessage, NumToStr(r.status))
                  /\ r.readable => Contains(ThrownMessage, r.body)
                  /\ (r.status = 500 /\ r.body = "oops" /\ r.readable) =>
                        /\ Contains(ThrownMessage, "500")
                        /\ Contains(ThrownMessage, "oops")

C3_Witness ==
    /\ pc = "failed"
    /\ fetchPromise.state = "fulfilled"
    /\ fetchPromise.res = [status |-> 500, body |-> "oops", readable |-> TRUE]
    /\ ThrownMessage = "Slack webhook failed: 500 oops"

\* C4: when the status is a non-success one and reading the body fails, the
\* invocation fails with the delivery error that carries the status code and
\* an empty body; the read failure is not the error thrown.
C4_ReadFailureSuppressed ==
    (pc = "failed" /\ fetchPromise.state = "fulfilled"
        /\ ~fetchPromise.res.readable) =>
        outcome = Thrown([name |-> "Error",
                          message |-> "Slack webhook failed: "
                                        \o NumToStr(fetchPromise.res.status) \o " "])

C4_Witness ==
    /\ pc = "failed"
    /\ fetchPromise.state = "fulfilled"
    /\ fetchPromise.res = [status |-> 404, body |-> "oops", readable |-> FALSE]
    /\ ThrownMessage = "Slack webhook failed: 404 "

\* C5 as stated: a transport failure makes the invocation fail with the
\* delivery error whose message embeds a status code, as for a non-success
\* status.
C5_Original ==
    fetchPromise.state = "rejected" =>
        /\ pc = "failed"
        /\ outcome.kind = "thrown"
        /\ StartsWith(ThrownMessage, "Slack webhook failed: ")
        /\ \E st \in 100..599 : Contains(ThrownMessage, NumToStr(st))

\* C5 amended: a transport failure makes the invocation fail with the
\* rejection of the request itself, unchanged and uncaught; there is no
\* response, so no status code and no body are put into it, and no second
\* request is made.
C5_TransportFailurePropagates ==
    fetchPromise.state = "rejected" =>
        /\ pc = "failed"
        /\ outcome = Thrown(fetchPromise.reason)
        /\ fetchPromise.res = NoResponse
        /\ ~StartsWith(ThrownMessage, "Slack webhook failed")
        /\ Len(requests) = 1

C5_Witness ==
    /\ pc = "failed"
    /\ fetchPromise.state = "rejected"
    /\ outcome.kind = "thrown"
    /\ outcome.error.name = "TypeError"

\* C8 as stated: the body text is the "message" string itself, the
\* serialization of an empty value when the field is absent, and otherwise
\* the serialization of the field's value.
C8_Original ==
    requests # <<>> =>
        /\ MessageField.t = "str" => BodyText = MessageField.s
        /\ MessageField.t = "undef" => BodyText = EmptySerialization
        /\ MessageField.t \notin {"str", "undef"} =>
              BodyText = JSONstringify(MessageField)

\* C8 amended: the body text is the "message" string itself (the empty string
\* included); the serialization of the empty string when the field is absent
\* or null; otherwise the indented JSON serialization of the field's value.
C8_BodyText ==
    requests # <<>> =>
        /\ MessageField.t = "str" => BodyText = MessageField.s
        /\ MessageField.t \in {"undef", "null"} => BodyText = EmptySerialization
        /\ MessageField.t \notin {"str", "undef", "null"} =>
              BodyText = JSONstringify(MessageField)
        /\ MessageField = VNum(42) => BodyText = "42"
        /\ MessageField = VBool(FALSE) => BodyText = "false"
        /\ MessageField = VArr(<<VStr("x")>>) => BodyText = "[\n  \"x\"\n]"
        /\ MessageField = VMap(<<"k">>, <<VNum(1)>>) => BodyText = "{\n  \"k\": 1\n}"

C8_Witness ==
    /\ requests # <<>>
    /\ MessageField = VNull
    /\ BodyText = EmptySerialization

\* C9: every point in time of the document, at any nesting depth inside
\* mappings and sequences, appears in the serialization as its quoted
\* ISO-8601 string and never in the object form, and everything else is
\* serialized as it would be without the rule.
C9_TimesAsIso ==
    requests # <<>> =>
        /\ frame.json = JSONstringify(IsoForm(event.data))
        /\ \A t \in TimeValues(event.data) :
              Contains(frame.json, "\"" \o KnownIso(t) \o "\"")
        /\ ~Contains(frame.json, "_seconds")

C9_Witness ==
    /\ requests # <<>>
    /\ TimeValues(event.data) = {TLeap}
    /\ DepthOfTime(event.data) = 3
    /\ Contains(frame.json, "\"2000-02-29T12:34:56.789Z\"")

\* C10 as stated: four sections in the order header, body, fields, raw data;
\* for the example record and id the fields section contains
\* "Doc ID:\nabc123" and the raw-data section the ISO string.
C10_Original ==
    requests # <<>> =>
        LET b == Payload.blocks
        IN  /\ Len(b) = 4
            /\ b[1].type = "header" /\ b[1].text.text = "New Firestore message"
            /\ "text" \in DOMAIN b[2] /\ b[2].text.text = frame.messageText
            /\ SectionContains(b[3], "messages")
            /\ SectionContains(b[3], event.docId)
            /\ "text" \in DOMAIN b[4]
            /\ StartsWith(b[4].text.text, Fence) /\ EndsWith(b[4].text.text, Fence)
            /\ (event.docId = "abc123" /\ event.data = ExampleRecord) =>
                  /\ SectionContains(b[3], "Doc ID:\nabc123")
                  /\ Contains(b[4].text.text, "2024-01-01T00:00:00.000Z")

\* C10 amended: the same four sections in the same order; for the example
\* record and id the fields section contains "*Doc ID:*\nabc123" (the label
\* is wrapped in the bold markers of the markup) and the raw-data section
\* contains the ISO string.
C10_PayloadSections ==
    requests # <<>> =>
        LET b == Payload.blocks
        IN  /\ Len(b) = 4
            /\ b[1].type = "header" /\ b[1].text.text = "New Firestore message"
            /\ "text" \in DOMAIN b[2] /\ b[2].text.text = frame.messageText
            /\ SectionContains(b[3], "messages")
            /\ SectionContains(b[3], event.docId)
            /\ "text" \in DOMAIN b[4]
            /\ StartsWith(b[4].text.text, Fence) /\ EndsWith(b[4].text.text, Fence)
            /\ (event.docId = "abc123" /\ event.data = ExampleRecord) =>
                  /\ SectionContains(b[3], "*Doc ID:*\nabc123")
                  /\ Contains(b[4].text.text, "2024-01-01T00:00:00.000Z")

C10_Witness ==
    /\ requests # <<>>
    /\ event.docId = "abc123"
    /\ event.data = ExampleRecord
    /\ Payload.blocks[3].fields[2].text = "*Doc ID:*\nabc123"

----------------------------------------------------------------------------
(* Properties of codeBlockWithLimit, checked under SpecBlock *)

\* C6 as stated, at the default budget: a text longer than the budget gives a
\* block of length budget - 20 + length(marker) that ends with the marker and
\* is no longer than the budget plus the marker.
C6_Original ==
    (cbOut.called /\ cbIn.max = DefaultMax /\ Len(cbIn.s) > cbIn.max) =>
        /\ Len(cbOut.value) = cbIn.max - 20 + Len(Marker)
        /\ EndsWith(cbOut.value, Marker)
        /\ Len(cbOut.value) <= cbIn.max + Len(Marker)

\* C6 amended: for a budget of at least 20 (the default 2900 included), a
\* text longer than the budget gives a block of length
\* budget - 20 + length(marker) + 6, the 6 being the two fences, which is
\* exactly the budget; the block ends with the marker followed by the closing
\* fence and holds the first budget - 20 characters of the text.
C6_TruncatedBlock ==
    (cbOut.called /\ cbIn.max >= 20 /\ Len(cbIn.s) > cbIn.max) =>
        /\ Len(cbOut.value) = cbIn.max - 20 + Len(Marker) + 6
        /\ Len(cbOut.value) = cbIn.max
        /\ EndsWith(cbOut.value, Marker \o Fence)
        /\ StartsWith(cbOut.value, Fence \o SubSeq(cbIn.s, 1, cbIn.max - 20))
        /\ Len(cbOut.value) <= cbIn.max + Len(Marker)

C6_Witness ==
    /\ cbOut.called
    /\ cbIn.max = DefaultMax
    /\ Len(cbIn.s) = DefaultMax + 1
    /\ Len(cbOut.value) = DefaultMax

\* C7: a text no longer than the budget, one of exactly the budget's length
\* included, comes back between the two fences, unmodified and without the
\* truncation marker.
C7_ShortTextVerbatim ==
    (cbOut.called /\ Len(cbIn.s) <= cbIn.max) =>
        /\ Len(cbOut.value) = Len(cbIn.s) + 6
        /\ SubSeq(cbOut.value, 1, 3) = Fence
        /\ SubSeq(cbOut.value, 4, Len(cbIn.s) + 3) = cbIn.s
        /\ SubSeq(cbOut.value, Len(cbIn.s) + 4, Len(cbIn.s) + 6) = Fence
        /\ ~Contains(cbOut.value, Marker)

C7_Witness ==
    /\ cbOut.called
    /\ cbIn.max = DefaultMax
    /\ Len(cbIn.s) = DefaultMax
    /\ Len(cbOut.value) = DefaultMax + 6

====
